---- MODULE Spec2Model ----
(***************************************************************************)
(* Model of app.py: the 3CD-versus-ITR reconciliation script.              *)
(*                                                                         *)
(* Python values are records tagged by their type in field t:              *)
(*   None  [t |-> "null"]          number [t |-> "num", n |-> thousandths] *)
(*   int beyond the float range     [t |-> "bigint"]                       *)
(*   str   [t |-> "str", s |-> sequence of one-character strings]          *)
(*   dict  [t |-> "obj", m |-> function from keys to values]               *)
(*   list  [t |-> "list", l |-> sequence of values]                        *)
(*   bool  [t |-> "bool", b |-> TRUE or FALSE] (results of comparisons)    *)
(* and an exception in flight is [t |-> "raise", exc |-> class name].      *)
(* A float is held as an integer number of thousandths, so that rounding   *)
(* to two decimal places is observable.                                    *)
(***************************************************************************)
EXTENDS Integers, Sequences, FiniteSets, TLC

VARIABLES
    val,        \* the scalar handed to DataEngine.to_f
    coerced,    \* what to_f returned (or raised) for val; "none" before the call
    fmt_3cd,    \* st.selectbox("3CD Format"): "JSON" or "XML"
    fmt_itr,    \* st.selectbox("ITR Format"): "JSON" or "XML"
    u_3cd,      \* the bytes of the uploaded 3CD file
    u_itr,      \* the bytes of the uploaded ITR file
    pc,         \* position of the script run
    aud,        \* result of DataEngine.parse_3cd
    ret,        \* result of DataEngine.parse_itr
    errors,     \* the st.sidebar.error messages shown so far
    df          \* the reconciliation table

vars == <<val, coerced, fmt_3cd, fmt_itr, u_3cd, u_itr, pc, aud, ret, errors, df>>

(***************************************************************************)
(* Bounds of the model.                                                    *)
(***************************************************************************)
MaxLen == 4      \* longest string handed to to_f
MaxItems == 2    \* most line items in one PF/ESI collection

(***************************************************************************)
(* Python values.                                                          *)
(***************************************************************************)
None == [t |-> "null"]
Num(n) == [t |-> "num", n |-> n]
BigInt == [t |-> "bigint"]
Str(s) == [t |-> "str", s |-> s]
Obj(m) == [t |-> "obj", m |-> m]
List(l) == [t |-> "list", l |-> l]
Bool(b) == [t |-> "bool", b |-> b]
Raise(exc) == [t |-> "raise", exc |-> exc]
EmptyObj == Obj(<<>>)
EmptyList == List(<<>>)
EmptyStr == Str(<<>>)

Raised(v) == v.t = "raise"

\* Whole amounts as floats.
Units(k) == Num(k * 1000)

(***************************************************************************)
(* Characters and strings.                                                 *)
(***************************************************************************)
Digits == <<"0", "1", "2", "3", "4", "5", "6", "7", "8", "9">>

IsDigit(c) == \E i \in 1..10 : Digits[i] = c

DigitVal(c) == (CHOOSE i \in 1..10 : Digits[i] = c) - 1

IsSpace(c) == c \in {" ", "\t", "\n"}

\* Code-point order of the characters the model's strings use.
CharOrder == <<"\t", "\n", " ", "+", ",", "-", ".", "0", "1", "2", "3", "4", "5",
               "6", "7", "8", "9", "A", "B", "C", "E", "L", "N", "O", "P", "R", "S",
               "a", "e", "h", "l", "n", "o", "p", "r", "s", "x">>

Ord(c) == CHOOSE i \in 1..Len(CharOrder) : CharOrder[i] = c

\* str > str: lexicographic by code point.
RECURSIVE StrGreater(_, _)
StrGreater(a, b) ==
    IF a = <<>> THEN FALSE
    ELSE IF b = <<>> THEN TRUE
    ELSE IF Head(a) = Head(b) THEN StrGreater(Tail(a), Tail(b))
    ELSE Ord(Head(a)) > Ord(Head(b))

\* str.replace(',', '')
RemoveCommas(s) == SelectSeq(s, LAMBDA c : c # ",")

RECURSIVE LStrip(_)
LStrip(s) == IF s # <<>> /\ IsSpace(Head(s)) THEN LStrip(Tail(s)) ELSE s

RECURSIVE RStrip(_)
RStrip(s) ==
    IF s # <<>> /\ IsSpace(s[Len(s)]) THEN RStrip(SubSeq(s, 1, Len(s) - 1)) ELSE s

\* str.strip()
Strip(s) == RStrip(LStrip(s))

\* str.upper() on the letters the model uses.
UpperChar(c) ==
    CASE c = "a" -> "A" [] c = "e" -> "E" [] c = "h" -> "H" [] c = "l" -> "L"
      [] c = "n" -> "N" [] c = "o" -> "O" [] c = "p" -> "P" [] c = "r" -> "R"
      [] c = "s" -> "S" [] c = "x" -> "X" [] OTHER -> c

Upper(s) == [i \in 1..Len(s) |-> UpperChar(s[i])]

\* needle in hay
Contains(hay, needle) ==
    \E i \in 0..(Len(hay) - Len(needle)) :
        SubSeq(hay, i + 1, i + Len(needle)) = needle

(***************************************************************************)
(* float(str) and round(x, 2).                                             *)
(***************************************************************************)
RECURSIVE DigitsValue(_)
DigitsValue(s) ==
    IF s = <<>> THEN 0 ELSE 10 * DigitsValue(SubSeq(s, 1, Len(s) - 1)) + DigitVal(s[Len(s)])

RECURSIVE Pow10(_)
Pow10(k) == IF k = 0 THEN 1 ELSE 10 * Pow10(k - 1)

AllDigits(s) == \A i \in 1..Len(s) : IsDigit(s[i])

\* The unsigned part of a float literal: digits, at most one point at index p
\* (Len + 1 when there is none), at least one digit.
FloatBody(body, neg, dots, p) ==
    IF /\ Cardinality(dots) <= 1
       /\ AllDigits(SubSeq(body, 1, p - 1))
       /\ AllDigits(SubSeq(body, p + 1, Len(body)))
       /\ Len(body) - Cardinality(dots) >= 1
    THEN [ok |-> TRUE,
          mant |-> (IF neg THEN -1 ELSE 1)
                   * DigitsValue(SelectSeq(body, LAMBDA c : c # ".")),
          dec |-> IF dots = {} THEN 0 ELSE Len(body) - p]
    ELSE [ok |-> FALSE, mant |-> 0, dec |-> 0]

Dots(body) == {i \in 1..Len(body) : body[i] = "."}

FloatUnsigned(body, neg) ==
    FloatBody(body, neg, Dots(body),
              IF Dots(body) = {} THEN Len(body) + 1 ELSE CHOOSE i \in Dots(body) : TRUE)

FloatStripped(t) ==
    IF t # <<>> /\ Head(t) \in {"+", "-"} THEN FloatUnsigned(Tail(t), Head(t) = "-")
    ELSE FloatUnsigned(t, FALSE)

\* float(s) for s made of a sign, digits and a point: the value as the exact
\* decimal mant / 10^dec, or ValueError.  (Exponents, underscores, inf and nan
\* need characters outside the model's alphabet.)
FloatOfStr(s) == FloatStripped(Strip(s))

\* |x| for integers
Abs(x) == IF x < 0 THEN -x ELSE x

\* round(a / unit, 0) for a >= 0.  A tie goes to the even neighbour, as for a
\* float that holds the decimal exactly; the inputs of the model carry no tie.
RoundDivNat(a, unit) ==
    IF 2 * (a % unit) > unit \/ (2 * (a % unit) = unit /\ (a \div unit) % 2 = 1)
    THEN (a \div unit) + 1
    ELSE a \div unit

\* round(q / unit, 0) as an integer.
RoundDiv(q, unit) == IF q < 0 THEN -RoundDivNat(-q, unit) ELSE RoundDivNat(q, unit)

\* round(mant / 10^dec, 2), in thousandths.
Round2(mant, dec) ==
    IF dec <= 2 THEN mant * Pow10(3 - dec)
    ELSE 10 * RoundDiv(mant, Pow10(dec - 2))

(***************************************************************************)
(* DataEngine.to_f                                                         *)
(***************************************************************************)
\* str(val) for the values to_f meets that are neither None nor numbers: a
\* str is itself; the text of a dict or a list opens with a bracket.
PyStr(v) ==
    CASE v.t = "str" -> v.s
      [] v.t = "obj" -> <<"{", "}">>
      [] v.t = "list" -> <<"[", "]">>
      [] v.t = "null" -> <<"N", "o", "n", "e">>

\* float(val) for an int or a float: an int beyond the float range overflows.
FloatOfNumber(v) == IF v.t = "bigint" THEN Raise("OverflowError") ELSE Num(v.n)

\* except (ValueError, TypeError): return 0.0
ToFCatch(r) ==
    IF Raised(r) /\ r.exc \in {"ValueError", "TypeError"} THEN Num(0) ELSE r

\* round(float(val), 2) of the parsed literal f
RoundParsed(f) == IF f.ok THEN Num(Round2(f.mant, f.dec)) ELSE Raise("ValueError")

to_f(v) ==
    IF Raised(v) THEN v
    ELSE IF v.t = "null" THEN Num(0)
    ELSE ToFCatch(
        IF v.t \in {"num", "bigint"} THEN FloatOfNumber(v)
        ELSE RoundParsed(FloatOfStr(Strip(RemoveCommas(PyStr(v))))))

(***************************************************************************)
(* dict, list and comparison semantics used by the extractors.             *)
(***************************************************************************)
\* d.get(k, dflt): AttributeError unless d is a dict.
Get(d, k, dflt) ==
    IF Raised(d) THEN d
    ELSE IF d.t # "obj" THEN Raise("AttributeError")
    ELSE IF k \in DOMAIN d.m THEN d.m[k] ELSE dflt

\* bool(v)
Truthy(v) ==
    CASE v.t = "null" -> FALSE
      [] v.t = "num" -> v.n # 0
      [] v.t = "bigint" -> TRUE
      [] v.t = "str" -> v.s # <<>>
      [] v.t = "obj" -> DOMAIN v.m # {}
      [] v.t = "list" -> v.l # <<>>

\* a or b
Or(a, b) == IF Raised(a) THEN a ELSE IF Truthy(a) THEN a ELSE b

\* The keys of a dict as a sequence of str; a key is kept as one symbol.
RECURSIVE KeySeq(_)
KeySeq(ks) ==
    IF ks = {} THEN <<>>
    ELSE LET k == CHOOSE x \in ks : TRUE IN <<Str(<<k>>)>> \o KeySeq(ks \ {k})

\* iter(v): the sequence a for-loop or a generator walks, or TypeError.
Iter(v) ==
    CASE Raised(v) -> v
      [] v.t = "list" -> v
      [] v.t = "str" -> List([i \in 1..Len(v.s) |-> Str(<<v.s[i]>>)])
      [] v.t = "obj" -> List(KeySeq(DOMAIN v.m))
      [] OTHER -> Raise("TypeError")

\* a > b for the operands the documents of the model carry (None, numbers, str):
\* two str compare by code point, two numbers by value, anything else is a
\* TypeError.
Greater(a, b) ==
    CASE Raised(a) -> a
      [] Raised(b) -> b
      [] a.t = "str" /\ b.t = "str" -> Bool(StrGreater(a.s, b.s))
      [] a.t = "num" /\ b.t = "num" -> Bool(a.n > b.n)
      [] a.t = "bigint" /\ b.t = "num" -> Bool(TRUE)
      [] a.t = "num" /\ b.t = "bigint" -> Bool(FALSE)
      [] a.t = "bigint" /\ b.t = "bigint" -> Bool(FALSE)
      [] OTHER -> Raise("TypeError")

\* v == "literal"
EqStr(v, lit) == v.t = "str" /\ v.s = lit

PERSONAL == <<"P", "E", "R", "S", "O", "N", "A", "L">>
S43Bh == <<"4", "3", "B", "h">>
SEC23 == <<"S", "E", "C", "2", "3">>

\* "PERSONAL" in str(v).upper(); the text of a number holds no letters.
IsPersonal(v) ==
    IF v.t \in {"num", "bigint"} THEN FALSE ELSE Contains(Upper(PyStr(v)), PERSONAL)

(***************************************************************************)
(* The extractor's try block.  Its running state is the record res and the *)
(* exception, if any, that ended the block ("" while none was raised).  A  *)
(* statement of the block is one of                                        *)
(*   Set(key, v)     res[key] = v, v a number or an exception,             *)
(*   SetName(v)      res["name"] = v,                                      *)
(*   Add(key, loop)  a loop of res[key] += ..., loop being what it added   *)
(*                   and the exception, if any, that stopped it,           *)
(*   Eval(v)         an expression bound to a local name.                  *)
(***************************************************************************)
ClauseKeys == {"c20b", "c21a", "c21d", "c21i", "c22", "c32", "c43bh"}

Start(res) == [res |-> res, exc |-> ""]

ExcOf(v) == IF Raised(v) THEN v.exc ELSE ""

Set(key, v) ==
    [key |-> key, mode |-> "set", new |-> IF Raised(v) THEN 0 ELSE v.n, exc |-> ExcOf(v)]

SetName(v) == [key |-> "name", mode |-> "set", new |-> v, exc |-> ExcOf(v)]

Add(key, loop) == [key |-> key, mode |-> "add", new |-> loop.n, exc |-> loop.exc]

Eval(v) == [key |-> "", mode |-> "eval", new |-> 0, exc |-> ExcOf(v)]

\* One statement: nothing once an exception ended the block.
Exec(st, stmt) ==
    IF st.exc # "" THEN st
    ELSE [res |-> CASE stmt.mode = "add" -> [st.res EXCEPT ![stmt.key] = @ + stmt.new]
                    [] stmt.mode = "set" /\ stmt.exc = "" ->
                            [st.res EXCEPT ![stmt.key] = stmt.new]
                    [] OTHER -> st.res,
          exc |-> stmt.exc]

\* The statements in order.
RECURSIVE Block(_, _)
Block(st, stmts) ==
    IF stmts = <<>> THEN st ELSE Block(Exec(st, Head(stmts)), Tail(stmts))

\* sum(Term(i) for i in items if Cond(i)) over a sequence of values; Cond
\* yields a bool or an exception, Term a number or an exception.
RECURSIVE SumSeq(_, _, _, _)
SumSeq(items, Cond(_), Term(_), acc) ==
    IF items = <<>> THEN Num(acc)
    ELSE LET c == Cond(Head(items))
         IN  IF Raised(c) THEN c
             ELSE IF ~c.b THEN SumSeq(Tail(items), Cond, Term, acc)
             ELSE LET x == Term(Head(items))
                  IN  IF Raised(x) THEN x
                      ELSE SumSeq(Tail(items), Cond, Term, acc + x.n)

\* sum(Term(i) for i in coll if Cond(i))
SumGen(coll, Cond(_), Term(_)) ==
    LET it == Iter(coll) IN IF Raised(it) THEN it ELSE SumSeq(it.l, Cond, Term, 0)

\* for i in items: if Cond(i): res[key] += Term(i) -- what the loop added, and
\* the exception that stopped it.
RECURSIVE AddLoop(_, _, _, _)
AddLoop(items, Cond(_), Term(_), acc) ==
    IF items = <<>> THEN [n |-> acc, exc |-> ""]
    ELSE LET c == Cond(Head(items))
         IN  IF Raised(c) THEN [n |-> acc, exc |-> c.exc]
             ELSE IF ~c.b THEN AddLoop(Tail(items), Cond, Term, acc)
             ELSE LET x == Term(Head(items))
                  IN  IF Raised(x) THEN [n |-> acc, exc |-> x.exc]
                      ELSE AddLoop(Tail(items), Cond, Term, acc + x.n)

\* A test of i.get(k): AttributeError when i is no dict.
TestGet(i, k, Test(_)) ==
    LET v == Get(i, k, None) IN IF Raised(v) THEN v ELSE Bool(Test(v))

(***************************************************************************)
(* Uploaded bytes.  A buffer is the text of a JSON value, the text of an   *)
(* XML tree, or neither; no buffer is both.                                *)
(*   [kind |-> "json", doc |-> value]   [kind |-> "xml", root |-> element] *)
(*   [kind |-> "garbage"]                                                  *)
(* An XML element is [t |-> "el", tag, text, kids]: tag is the tag split at *)
(* "}" (<<"{urn", "Amount">> or <<"Amount">>), text is None or a str, kids *)
(* the child elements in document order.                                   *)
(***************************************************************************)
JsonBytes(doc) == [kind |-> "json", doc |-> doc]
XmlBytes(root) == [kind |-> "xml", root |-> root]
Garbage == [kind |-> "garbage"]

El(tag, text, kids) == [t |-> "el", tag |-> tag, text |-> text, kids |-> kids]

\* json.loads(content)
json_loads(content) ==
    IF content.kind = "json" THEN content.doc ELSE Raise("JSONDecodeError")

\* ET.fromstring(content)
ET_fromstring(content) ==
    IF content.kind = "xml" THEN content.root ELSE Raise("ParseError")

\* element.iter(): the element, then its descendants, in document order.
RECURSIVE ElIter(_)
RECURSIVE ElIterAll(_)
ElIter(el) == <<el>> \o ElIterAll(el.kids)
ElIterAll(els) == IF els = <<>> THEN <<>> ELSE ElIter(Head(els)) \o ElIterAll(Tail(els))

\* el.tag.split('}')[-1]
LocalName(el) == el.tag[Len(el.tag)]

\* root.findall(".//{*}name"): the descendants of root (never root itself)
\* whose local name is name, in document order.
FindAll(root, name) == SelectSeq(ElIterAll(root.kids), LAMBDA e : LocalName(e) = name)

\* DataEngine.get_xml_text
get_xml_text(element, tag_name) ==
    LET hits == SelectSeq(ElIter(element), LAMBDA e : LocalName(e) = tag_name)
    IN  IF hits = <<>> THEN None ELSE Head(hits).text

(***************************************************************************)
(* DataEngine.parse_3cd                                                    *)
(***************************************************************************)
\* res as parse_3cd creates it.
Res3cd0 == [k \in ClauseKeys |-> 0]

\* Tagged input: if act and due and act > due
LateXml(act, due) ==
    IF ~Truthy(act) \/ ~Truthy(due) THEN Bool(FALSE) ELSE Greater(act, due)

\* Tagged input: pf_entries
PfEntriesXml(root) ==
    FindAll(root, "Form3cdEmpPfSuperann") \o FindAll(root, "Form3cdSect20b")

\* Tagged input: the loop over pf_entries.
PfLoopXml(items) ==
    AddLoop(items,
            LAMBDA item : LateXml(get_xml_text(item, "ActualDate"),
                                  get_xml_text(item, "DueDate")),
            LAMBDA item : to_f(get_xml_text(item, "Amount")), 0)

SumXml(items, Cond(_), field) ==
    SumSeq(items, Cond, LAMBDA i : to_f(get_xml_text(i, field)), 0)

\* Tagged input: the loop over Form3cdUnpaidStrySec43b.
Unpaid43bLoopXml(items) ==
    AddLoop(items, LAMBDA i : Bool(EqStr(get_xml_text(i, "Section"), S43Bh)),
            LAMBDA i : to_f(get_xml_text(i, "Amount")), 0)

StmtsXml3cd(root) ==
    << Add("c20b", PfLoopXml(PfEntriesXml(root))),
       Set("c21a", SumXml(FindAll(root, "Form3cdDebPLExpnditure"),
                          LAMBDA i : Bool(IsPersonal(get_xml_text(i, "ParticularType"))),
                          "Amount")),
       Add("c43bh", Unpaid43bLoopXml(FindAll(root, "Form3cdUnpaidStrySec43b"))),
       Set("c21d", to_f(get_xml_text(root, "AmountDisallowance40A3"))),
       Set("c21i", to_f(get_xml_text(root, "AmountDisallowance40ai"))),
       Set("c22", to_f(get_xml_text(root, "SubClauseeofClause22"))),
       Set("c32", SumXml(FindAll(root, "Form3cdDeprAllw"), LAMBDA i : Bool(TRUE),
                         "DepAllowable")) >>

Body3cdXml(content, st0) ==
    LET root == ET_fromstring(content)
    IN  IF Raised(root) THEN [st0 EXCEPT !.exc = root.exc]
        ELSE Block(st0, StmtsXml3cd(root))

\* Structured input: if i.get("ActualDate", "") > i.get("DueDate", "")
LateJson(i) == Greater(Get(i, "ActualDate", EmptyStr), Get(i, "DueDate", EmptyStr))

\* Structured input: pf
PfEntriesJson(f) ==
    Or(Get(Get(f, "Form3cdEmpPfSuperannInfo", EmptyObj), "Form3cdSect20b", EmptyList),
       Get(f, "Form3cdSect20b", EmptyList))

\* Structured input: the loop over pf.
PfLoopJson(pf) ==
    LET it == Iter(pf)
    IN  IF Raised(it) THEN [n |-> 0, exc |-> it.exc]
        ELSE AddLoop(it.l, LateJson, LAMBDA i : to_f(Get(i, "Amount", None)), 0)

\* sum(to_f(i.get(field)) for i in f.get(coll, []) if Cond(i))
SumJson(f, coll, Cond(_), field) ==
    SumGen(Get(f, coll, EmptyList), Cond, LAMBDA i : to_f(Get(i, field, None)))

\* js.get("FORM3CA", {}).get("F3CA", {}) or js.get("FORM3CB", {}).get("F3CB", {})
Root3cdJson(js) ==
    Or(Get(Get(js, "FORM3CA", EmptyObj), "F3CA", EmptyObj),
       Get(Get(js, "FORM3CB", EmptyObj), "F3CB", EmptyObj))

StmtsJson3cd(f) ==
    << Add("c20b", PfLoopJson(PfEntriesJson(f))),
       Set("c21a", SumJson(f, "Form3cdDebPLExpnditure",
                           LAMBDA i : TestGet(i, "ParticularType", IsPersonal), "Amount")),
       Set("c43bh", SumJson(f, "Form3cdUnpaidStrySec43b",
                            LAMBDA i : TestGet(i, "Section", LAMBDA v : EqStr(v, S43Bh)),
                            "Amount")),
       Set("c21d", to_f(Get(f, "AmountDisallowance40A3", None))),
       Set("c21i", to_f(Get(f, "AmountDisallowance40ai", None))),
       Set("c22", SumJson(f, "Form3cdInadm",
                          LAMBDA i : TestGet(i, "ParticularType", LAMBDA v : EqStr(v, SEC23)),
                          "Amount4")),
       Set("c32", SumJson(f, "Form3cdDeprAllw", LAMBDA i : Bool(TRUE), "DepAllowable")) >>

Body3cdJson(content, st0) ==
    LET f == Root3cdJson(json_loads(content))
    IN  IF Raised(f) THEN [st0 EXCEPT !.exc = f.exc]
        ELSE IF ~Truthy(f) THEN st0
        ELSE Block(st0, StmtsJson3cd(f))

\* A handler written "except ValueError": it lets the other classes through.
IsExceptionNarrow(exc) == exc \in {"ValueError", "JSONDecodeError"}

\* The classes "except Exception" catches: every exception the extractors
\* can raise derives from Exception.
IsException(exc) ==
    exc \in {"ValueError", "JSONDecodeError", "ParseError", "TypeError",
             "AttributeError", "OverflowError"}

\* A handler that swallows the exception without st.sidebar.error.
TryExceptSilent(st, message) ==
    [res |-> st.res, error |-> <<>>, raised |-> IF IsException(st.exc) THEN "" ELSE st.exc]

\* try: ... except Exception as e: st.sidebar.error(...); return res.
\* The outcome: the record returned, the sidebar message if one was shown,
\* and the exception that leaves the function, if any ("" for none).
TryExcept(st, message) ==
    IF st.exc = "" THEN [res |-> st.res, error |-> <<>>, raised |-> ""]
    ELSE IF IsException(st.exc) THEN [res |-> st.res, error |-> <<message>>, raised |-> ""]
    ELSE [res |-> st.res, error |-> <<>>, raised |-> st.exc]

parse_3cd(content, is_xml) ==
    TryExcept(IF is_xml THEN Body3cdXml(content, Start(Res3cd0))
              ELSE Body3cdJson(content, Start(Res3cd0)),
              "Error parsing 3CD")

(***************************************************************************)
(* DataEngine.parse_itr                                                    *)
(***************************************************************************)
Assessee == Str(<<"A", "s", "s", "e", "s", "s", "e", "e">>)
Unknown == Str(<<"U", "n", "k", "n", "o", "w", "n">>)

\* res as parse_itr creates it.
ResItr0 == [k \in ClauseKeys \cup {"name"} |-> IF k = "name" THEN Assessee ELSE 0]

\* to_f(get_xml_text(root, a)) or to_f(get_xml_text(root, b))
C21aXml(root) ==
    Or(to_f(get_xml_text(root, "PersonalExp")), to_f(get_xml_text(root, "PersonalExpndtr")))

\* to_f(get_xml_text(root, "TotDeprAllowITAct"))
C32Xml(root) == to_f(get_xml_text(root, "TotDeprAllowITAct"))

StmtsXmlItr(root) ==
    << SetName(Or(get_xml_text(root, "SurNameOrOrgName"), Unknown)),
       Set("c20b", to_f(get_xml_text(root, "EmplyeeContrStatutoryFund"))),
       Set("c21a", C21aXml(root)),
       Set("c21d", to_f(get_xml_text(root, "AmtDisallowance40A3"))),
       Set("c21i", to_f(get_xml_text(root, "AmtDisallowance40ai"))),
       Set("c22", to_f(get_xml_text(root, "MSMEDisallowance"))),
       Set("c32", C32Xml(root)),
       Set("c43bh", to_f(get_xml_text(root, "MSEPayable"))) >>

BodyItrXml(content, st0) ==
    LET root == ET_fromstring(content)
    IN  IF Raised(root) THEN [st0 EXCEPT !.exc = root.exc]
        ELSE Block(st0, StmtsXmlItr(root))

\* js.get("ITR", {}).get("ITR3") or ... .get("ITR5") or ... .get("ITR6")
RootItrJson(js) ==
    Or(Or(Get(Get(js, "ITR", EmptyObj), "ITR3", None),
          Get(Get(js, "ITR", EmptyObj), "ITR5", None)),
       Get(Get(js, "ITR", EmptyObj), "ITR6", None))

\* gen1.get("PersonalInfo", {})...get("SurNameOrOrgName") or
\* gen1.get("OrgFirmInfo", {})...get("SurNameOrOrgName", "Assessee")
NameJson(gen1) ==
    Or(Get(Get(Get(gen1, "PersonalInfo", EmptyObj), "AssesseeName", EmptyObj),
           "SurNameOrOrgName", None),
       Get(Get(Get(gen1, "OrgFirmInfo", EmptyObj), "AssesseeName", EmptyObj),
           "SurNameOrOrgName", Assessee))

\* (itr.get("ITR3ScheduleBP") or itr.get("CorpScheduleBP") or
\*  itr.get("ScheduleBP", {})).get("BusinessIncOthThanSpec", {})
BpJson(itr) ==
    Get(Or(Or(Get(itr, "ITR3ScheduleBP", None), Get(itr, "CorpScheduleBP", None)),
           Get(itr, "ScheduleBP", EmptyObj)),
        "BusinessIncOthThanSpec", EmptyObj)

\* to_f(oi.get("AmtDisallUs37", {}).get("PersonalExpndtr")) or
\* to_f(bp.get("AmtDebPLDisallowUs37"))
C21aJson(oi, bp) ==
    Or(to_f(Get(Get(oi, "AmtDisallUs37", EmptyObj), "PersonalExpndtr", None)),
       to_f(Get(bp, "AmtDebPLDisallowUs37", None)))

\* to_f(bp.get("DepreciationAllowITAct32", {}).get("TotDeprAllowITAct"))
C32Json(bp) ==
    to_f(Get(Get(bp, "DepreciationAllowITAct32", EmptyObj), "TotDeprAllowITAct", None))

\* to_f(oi.get("AmtDisallUs43BPyNowAll", {})...) or to_f(oi.get("AmtDisallUs43B", {})...)
C43bhJson(oi) ==
    Or(to_f(Get(Get(Get(oi, "AmtDisallUs43BPyNowAll", EmptyObj), "AmtUs43B", EmptyObj),
                "MSEPayable", None)),
       to_f(Get(Get(Get(oi, "AmtDisallUs43B", EmptyObj), "AmtUs43B", EmptyObj),
                "MSEPayable", None)))

\* The statements under "if itr:"; gen1, oi and bp are the locals of lines
\* 93, 97 and 98.
StmtsJsonItr(gen1, oi, bp) ==
    << Eval(gen1),
       SetName(NameJson(gen1)),
       Eval(oi),
       Eval(bp),
       Set("c20b", to_f(Get(Get(oi, "AmtDisallUs36", EmptyObj),
                            "EmplyeeContrStatutoryFund", None))),
       Set("c21a", C21aJson(oi, bp)),
       Set("c21d", to_f(Get(Get(oi, "AmtDisallUs40A", EmptyObj), "AmtDisallUs40A3", None))),
       Set("c21i", to_f(Get(Get(oi, "AmtDisallUs40", EmptyObj), "AmtDisallUs40ai", None))),
       Set("c22", to_f(Get(Get(Get(oi, "AmtDisall43B", EmptyObj), "AmtUs43B", EmptyObj),
                           "MSEPayable", None))),
       Set("c32", C32Json(bp)),
       Set("c43bh", C43bhJson(oi)) >>

BodyItrJson(content, st0) ==
    LET itr == RootItrJson(json_loads(content))
    IN  IF Raised(itr) THEN [st0 EXCEPT !.exc = itr.exc]
        ELSE IF ~Truthy(itr) THEN st0
        ELSE Block(st0, StmtsJsonItr(Get(itr, "PartA_GEN1", EmptyObj),
                                     Get(itr, "PARTA_OI", EmptyObj), BpJson(itr)))

parse_itr(content, is_xml) ==
    TryExcept(IF is_xml THEN BodyItrXml(content, Start(ResItr0))
              ELSE BodyItrJson(content, Start(ResItr0)),
              "Error parsing ITR")

(***************************************************************************)
(* The script: lines 128-146.                                              *)
(***************************************************************************)
Tolerance == 5

\* No file in a st.file_uploader.
NoFile == [kind |-> "nofile"]

\* The rows of recon_data: clause label, parameter, key read from aud, key
\* read from ret.
ReconRows ==
    << <<"20(b)", "ESI/PF (Late Payments)", "c20b", "c20b">>,
       <<"21(a)", "Personal Expenses", "c21a", "c21a">>,
       <<"21(d)", "Cash Payments (40A3)", "c21d", "c21d">>,
       <<"21(i)", "TDS Defaults (40ai)", "c21i", "c21i">>,
       <<"22", "MSME Interest (Sec 23)", "c22", "c22">>,
       <<"43B(h)", "MSME Unpaid (Sec 43Bh)", "c43bh", "c43bh">>,
       <<"32", "Depreciation (IT Act)", "c32", "c32">> >>

recon_data(a, r) ==
    [i \in 1..Len(ReconRows) |->
        [Clause |-> ReconRows[i][1], Parameter |-> ReconRows[i][2],
         Audit |-> a[ReconRows[i][3]], Return |-> r[ReconRows[i][4]]]]

\* The comparison written abs(x) <= 5.
StatusInclusive(x) == IF Abs(x) <= Tolerance * 1000 THEN "Match" ELSE "Mismatch"

\* lambda x: "Match" if abs(x) < 5 else "Mismatch"
Status(x) == IF Abs(x) < Tolerance * 1000 THEN "Match" ELSE "Mismatch"

\* df with its Diff and Status columns.
Reconcile(a, r) ==
    LET rows == recon_data(a, r)
    IN  [i \in 1..Len(rows) |->
            [Clause |-> rows[i].Clause, Parameter |-> rows[i].Parameter,
             Audit |-> rows[i].Audit, Return |-> rows[i].Return,
             Diff |-> rows[i].Audit - rows[i].Return,
             Status |-> Status(rows[i].Audit - rows[i].Return)]]

IsXml(fmt) == fmt = "XML"

\* if u_3cd and u_itr: ... else: st.info(...)
Gate ==
    /\ pc = "start"
    /\ pc' = IF u_3cd # NoFile /\ u_itr # NoFile THEN "parse_3cd" ELSE "info"
    /\ UNCHANGED <<val, coerced, fmt_3cd, fmt_itr, u_3cd, u_itr, aud, ret, errors, df>>

\* aud = DataEngine.parse_3cd(u_3cd.read(), is_xml=(fmt_3cd == "XML"))
Parse3cd ==
    /\ pc = "parse_3cd"
    /\ \E r \in {parse_3cd(u_3cd, IsXml(fmt_3cd))} :
           /\ errors' = errors \o r.error
           /\ IF r.raised = "" THEN aud' = r.res /\ pc' = "parse_itr"
              ELSE aud' = aud /\ pc' = "crashed"
    /\ UNCHANGED <<val, coerced, fmt_3cd, fmt_itr, u_3cd, u_itr, ret, df>>

\* ret = DataEngine.parse_itr(u_itr.read(), is_xml=(fmt_itr == "XML"))
ParseItr ==
    /\ pc = "parse_itr"
    /\ \E r \in {parse_itr(u_itr, IsXml(fmt_itr))} :
           /\ errors' = errors \o r.error
           /\ IF r.raised = "" THEN ret' = r.res /\ pc' = "recon"
              ELSE ret' = ret /\ pc' = "crashed"
    /\ UNCHANGED <<val, coerced, fmt_3cd, fmt_itr, u_3cd, u_itr, aud, df>>

\* recon_data, df["Diff"], df["Status"], st.table
Recon ==
    /\ pc = "recon"
    /\ df' = Reconcile(aud, ret)
    /\ pc' = "done"
    /\ UNCHANGED <<val, coerced, fmt_3cd, fmt_itr, u_3cd, u_itr, aud, ret, errors>>

\* A call DataEngine.to_f(val)
Coerce ==
    /\ coerced.t = "none"
    /\ coerced' = to_f(val)
    /\ UNCHANGED <<val, fmt_3cd, fmt_itr, u_3cd, u_itr, pc, aud, ret, errors, df>>

Next == Gate \/ Parse3cd \/ ParseItr \/ Recon \/ Coerce

(***************************************************************************)
(* Documents the uploads are drawn from.                                   *)
(***************************************************************************)
SeqsUpTo(S, n) == UNION {[1..k -> S] : k \in 0..n}

Due == Str(<<"0", "4", "-", "0", "7">>)
Late == Str(<<"0", "5", "-", "0", "1">>)
Early == Str(<<"0", "4", "-", "0", "1">>)

\* ---- structured 3CD ----
PfItemsJson ==
    { Obj(("Amount" :> Str(<<"1", ",", "7", ".", "1", "7">>)) @@ ("DueDate" :> Due)
          @@ ("ActualDate" :> Late)),                                  \* late
      Obj(("Amount" :> Units(2)) @@ ("DueDate" :> Due) @@ ("ActualDate" :> Early)),
      Obj(("Amount" :> Units(4)) @@ ("ActualDate" :> Late)),           \* no due date
      Obj(("Amount" :> Units(8)) @@ ("DueDate" :> Due)),               \* no actual date
      Obj(("Amount" :> Units(16)) @@ ("DueDate" :> None) @@ ("ActualDate" :> Late)),
      Obj(("Amount" :> BigInt) @@ ("DueDate" :> Due) @@ ("ActualDate" :> Late)),
      Units(5) }                                                       \* not a dict

PfWrapJson(w, items) ==
    IF w = "info"
    THEN "Form3cdEmpPfSuperannInfo" :> Obj("Form3cdSect20b" :> List(items))
    ELSE "Form3cdSect20b" :> List(items)

DebPLJson ==
    List(<< Obj(("ParticularType" :> Str(<<"P", "e", "r", "s", "o", "n", "a", "l">>))
                @@ ("Amount" :> Units(30))),
            Obj(("ParticularType" :> Str(<<"x">>)) @@ ("Amount" :> Units(1))),
            Obj("Amount" :> Units(1)) >>)

UnpaidJson ==
    List(<< Obj(("Section" :> Str(S43Bh)) @@ ("Amount" :> Units(60))),
            Obj(("Section" :> Str(<<"4", "3", "B">>)) @@ ("Amount" :> Units(1))) >>)

InadmJson ==
    List(<< Obj(("ParticularType" :> Str(SEC23)) @@ ("Amount4" :> Units(50))
                @@ ("Amount" :> Units(1))),
            Obj(("ParticularType" :> Str(<<"S", "E", "C">>)) @@ ("Amount4" :> Units(1))) >>)

DeprJson ==
    List(<< Obj("DepAllowable" :> Units(70)),
            Obj("DepAllowable" :> Str(<<"1", ",", "7">>)), EmptyObj >>)

\* The clauses other than 20(b); d is the value of AmountDisallowance40A3.
RestJson(d) ==
    ("AmountDisallowance40A3" :> d)
    @@ ("AmountDisallowance40ai" :> Str(<<"7", ".", "1", "1", "7">>))
    @@ ("Form3cdDebPLExpnditure" :> DebPLJson)
    @@ ("Form3cdUnpaidStrySec43b" :> UnpaidJson)
    @@ ("Form3cdInadm" :> InadmJson)
    @@ ("Form3cdDeprAllw" :> DeprJson)

\* Collections that are not lists of dicts.
BadCollJson ==
    { "Form3cdDebPLExpnditure" :> List(<<Units(3)>>),
      "Form3cdUnpaidStrySec43b" :> Units(3),
      "Form3cdInadm" :> Str(<<"x">>),
      "Form3cdDeprAllw" :> Obj("DepAllowable" :> Units(15)),
      "Form3cdSect20b" :> Obj("Amount" :> Units(15)),
      "AmountDisallowance40A3" :> BigInt }

AuditJson(variant, f) ==
    JsonBytes(IF variant = "3CA" THEN Obj("FORM3CA" :> Obj("F3CA" :> Obj(f)))
              ELSE Obj(("FORM3CA" :> Obj("F3CA" :> EmptyObj))
                       @@ ("FORM3CB" :> Obj("F3CB" :> Obj(f)))))

AuditJsonDocs ==
    { AuditJson("3CA", PfWrapJson(w, items) @@ RestJson(Units(100))) :
        w \in {"info", "flat"}, items \in SeqsUpTo(PfItemsJson, MaxItems) }
    \cup { AuditJson("3CB", bad @@ RestJson(Units(100))) : bad \in BadCollJson }
    \cup { JsonBytes(EmptyObj), JsonBytes(List(<<Units(1)>>)),
           JsonBytes(Obj("FORM3CA" :> None)),
           JsonBytes(Obj("FORM3CB" :> Obj("F3CB" :> Str(<<"x">>)))) }

\* ---- tagged 3CD ----
XField(name, text) == El(<<name>>, Str(text), <<>>)

\* A PF/ESI element: which of amount, due date and actual date it carries.
XPf(tag, amt, due, act, kids) ==
    El(<<tag>>, None,
       (IF amt = <<>> THEN <<>> ELSE <<XField("Amount", amt)>>)
       \o (IF due = <<>> THEN <<>> ELSE <<XField("DueDate", due)>>)
       \o (IF act = <<>> THEN <<>> ELSE <<XField("ActualDate", act)>>)
       \o kids)

PfTags == {"Form3cdEmpPfSuperann", "Form3cdSect20b"}

XPfLeaves ==
    { XPf(tag, v[1], v[2], v[3], <<>>) :
        tag \in PfTags,
        v \in { << <<"1", "0">>, Due.s, Late.s >>,        \* late
                << <<"2", "0">>, Due.s, Early.s >>,       \* on time
                << <<"4", "0">>, <<>>, Late.s >>,         \* no due date
                << <<"8", "0">>, Due.s, <<>> >> } }       \* no actual date

\* One PF/ESI element holding others.
XPfNested ==
    { XPf(tag, v[1], v[2], v[3], inner) :
        tag \in PfTags,
        v \in { << <<>>, <<>>, <<>> >>, << <<"1">>, Due.s, Late.s >> },
        inner \in SeqsUpTo(XPfLeaves, MaxItems) \ {<<>>} }

XLine(tag, a, b) == El(<<tag>>, None, <<XField(a[1], a[2]), XField(b[1], b[2])>>)

XRest ==
    << XField("AmountDisallowance40A3", <<"1", "0", "0">>),
       El(<<"x">>, None, <<XField("AmountDisallowance40ai", <<"7", ".", "1", "1", "7">>)>>),
       XField("SubClauseeofClause22", <<" ", "5", "0", " ">>),
       XLine("Form3cdDebPLExpnditure",
             <<"ParticularType", <<"p", "e", "r", "s", "o", "n", "a", "l">> >>,
             <<"Amount", <<"3", "0">> >>),
       XLine("Form3cdDebPLExpnditure", <<"ParticularType", <<"x">> >>, <<"Amount", <<"1">> >>),
       XLine("Form3cdUnpaidStrySec43b", <<"Section", S43Bh>>, <<"Amount", <<"6", "0">> >>),
       XLine("Form3cdUnpaidStrySec43b", <<"Section", <<"4", "3", "B">> >>, <<"Amount", <<"1">> >>),
       El(<<"Form3cdDeprAllw">>, None, <<XField("DepAllowable", <<"7", "0">>)>>),
       El(<<"Form3cdDeprAllw">>, None, <<XField("DepAllowable", <<"x">>)>>) >>

\* The tree with every tag in the namespace urn: "{urn}Tag".
RECURSIVE WithNs(_)
WithNs(el) ==
    El(<<"{urn">> \o el.tag, el.text, [i \in 1..Len(el.kids) |-> WithNs(el.kids[i])])

AuditXml(body) == XmlBytes(El(<<"r">>, None, body \o XRest))

AuditXmlFlat == { AuditXml(body) : body \in SeqsUpTo(XPfLeaves, MaxItems) }

AuditXmlNested == { AuditXml(<<e>>) : e \in XPfNested }

AuditXmlDocs ==
    AuditXmlFlat \cup AuditXmlNested
    \cup { XmlBytes(WithNs(c.root)) : c \in { AuditXml(<<e>>) : e \in XPfLeaves } }
    \cup { XmlBytes(El(<<"r">>, None, <<>>)) }

\* ---- structured ITR ----
\* A key that a document does not carry.
Absent == [t |-> "absent"]

Opt(k, v) == IF v = Absent THEN <<>> ELSE k :> v

\* PARTA_OI with PersonalExpndtr pe, AmtDisallUs36 s36 and AmtDisallUs40A3 d.
OiJson(pe, s36, d) ==
    Obj(("AmtDisallUs36" :> s36)
        @@ ("AmtDisallUs37" :> Obj(Opt("PersonalExpndtr", pe)))
        @@ ("AmtDisallUs40A" :> Obj("AmtDisallUs40A3" :> d))
        @@ ("AmtDisallUs40" :> Obj("AmtDisallUs40ai" :> Units(7)))
        @@ ("AmtDisall43B" :> Obj("AmtUs43B" :> Obj("MSEPayable" :> Units(3))))
        @@ ("AmtDisallUs43BPyNowAll" :> Obj("AmtUs43B" :> Obj("MSEPayable" :> Units(0))))
        @@ ("AmtDisallUs43B" :> Obj("AmtUs43B" :> Obj("MSEPayable" :> Units(4)))))

S36 == Obj("EmplyeeContrStatutoryFund" :> Str(<<"7", "7">>))

OiSet ==
    { OiJson(pe, S36, Units(1)) :
        pe \in {Absent, Units(0), Str(<<"0">>), Units(500), Str(<<"x">>), BigInt} }
    \cup { Absent, None, OiJson(Units(500), Str(<<"x">>), Units(1)) }

\* BusinessIncOthThanSpec with AmtDebPLDisallowUs37 fb and TotDeprAllowITAct dep.
BpJsonDoc(fb, dep) ==
    Obj(Opt("AmtDebPLDisallowUs37", fb)
        @@ Opt("DepreciationAllowITAct32",
               IF dep = Absent THEN Absent ELSE Obj("TotDeprAllowITAct" :> dep)))

\* The business schedule under one of its three keys, or malformed, or absent.
BpSet ==
    { k :> Obj("BusinessIncOthThanSpec" :> BpJsonDoc(fb, dep)) :
        k \in {"ITR3ScheduleBP", "CorpScheduleBP", "ScheduleBP"},
        fb \in {Absent, Units(0), Units(9), Str(<<"9", ".", "1", "1", "7">>)},
        dep \in {Absent, Units(0), Units(8)} }
    \cup { <<>>, "ScheduleBP" :> None,
           "ITR3ScheduleBP" :> Obj("BusinessIncOthThanSpec" :> None) }

\* The two asset-class depreciation schedules (the source reads neither).
SchedSet ==
    { <<>>,
      ("ScheduleDPM" :> Obj("TotDepreciation" :> Units(3)))
      @@ ("ScheduleDOA" :> Obj("TotDepreciation" :> Units(4))),
      ("ScheduleDPM" :> Obj("TotDepreciation" :> Units(0)))
      @@ ("ScheduleDOA" :> Obj("TotDepreciation" :> Units(0))) }

NameAnn == Str(<<"A", "n", "n">>)

Gen1Set ==
    { Absent,
      Obj("PersonalInfo" :> Obj("AssesseeName" :> Obj("SurNameOrOrgName" :> NameAnn))),
      Obj("OrgFirmInfo" :> Obj("AssesseeName" :> Obj("SurNameOrOrgName" :> NameAnn))) }

ItrJson(rootKey, gen1, oi, bp, sched) ==
    JsonBytes(Obj("ITR" :> Obj(rootKey :>
        Obj(Opt("PartA_GEN1", gen1) @@ Opt("PARTA_OI", oi) @@ bp @@ sched
            @@ ("Form" :> Str(<<"x">>))))))

ItrJsonDocs ==
    { ItrJson("ITR3", Absent, oi, bp, sched) : oi \in OiSet, bp \in BpSet, sched \in SchedSet }
    \cup { ItrJson(k, g, OiJson(Units(500), S36, Units(1)), <<>>, <<>>) :
            k \in {"ITR5", "ITR6", "ITR7"}, g \in Gen1Set }
    \cup { JsonBytes(EmptyObj), JsonBytes(Obj("ITR" :> None)),
           JsonBytes(Obj("ITR" :> Obj("ITR3" :> Str(<<"x">>)))) }

\* ---- tagged ITR ----
XOpt(name, text) == IF text = Absent THEN <<>> ELSE <<El(<<name>>, text, <<>>)>>

ItrXml(name, pe, pe2, dep, sched) ==
    XmlBytes(El(<<"r">>, None,
        XOpt("SurNameOrOrgName", name)
        \o << El(<<"a">>, None,
                 <<XField("EmplyeeContrStatutoryFund", <<"7", "7">>)>>
                 \o XOpt("PersonalExp", pe) \o XOpt("PersonalExpndtr", pe2)
                 \o << XField("AmtDisallowance40A3", <<"1">>),
                       XField("AmtDisallowance40ai", <<"2">>),
                       XField("MSMEDisallowance", <<"3">>) >>
                 \o XOpt("TotDeprAllowITAct", dep)
                 \o <<XField("MSEPayable", <<"4">>)>>) >>
        \o sched))

XSchedSet ==
    { <<>>,
      << El(<<"ScheduleDPM">>, None, <<XField("TotDepreciation", <<"3">>)>>),
         El(<<"ScheduleDOA">>, None, <<XField("TotDepreciation", <<"4">>)>>) >> }

ItrXmlDocs ==
    { ItrXml(name, pe, pe2, dep, sched) :
        name \in {Absent, NameAnn},
        pe \in {Absent, Str(<<"0">>), Str(<<"2">>)},
        pe2 \in {Absent, Str(<<"3">>)},
        dep \in {Absent, Str(<<"0">>), Str(<<"7">>)},
        sched \in XSchedSet }

\* ---- amounts on both sides of row 21(d) ----
ReconAmounts == {Num(0), Num(95000), Num(99990), Num(100000), Num(100010), Num(105000)}

\* ---- scalars handed to to_f ----
Alphabet == {"1", "7", ",", ".", " ", "-", "x"}

CoerceInputs ==
    { Str(s) : s \in SeqsUpTo(Alphabet, MaxLen) }
    \cup { Num(n) : n \in {0, 1000, 1230, 1239, 1231, -1239, 5000000} }
    \cup { None, BigInt, EmptyObj, EmptyList, List(<<Units(1)>>) }

(***************************************************************************)
(* The state at the start of a script run.                                 *)
(***************************************************************************)
Formats == {"JSON", "XML"}

AuditPlain == AuditJson("3CA", PfWrapJson("flat", <<>>) @@ RestJson(Units(100)))
ItrPlain == ItrJson("ITR3", Absent, OiJson(Units(500), S36, Units(1)), <<>>, <<>>)

\* A 3CD whose PF/ESI list holds a late item and then a non-dict, and an ITR
\* whose AmtDisallUs36 is a string.
AuditHalf ==
    AuditJson("3CA",
        PfWrapJson("flat", <<Obj(("Amount" :> Units(2)) @@ ("DueDate" :> Due)
                                 @@ ("ActualDate" :> Late)), Units(5)>>)
        @@ RestJson(Units(100)))
ItrHalf == ItrJson("ITR3", Absent, OiJson(Units(500), Str(<<"x">>), Units(1)), <<>>, <<>>)

\* The uploads and the format tags of one run.
Inputs ==
    \* every 3CD document, under either format tag
    { [u3 |-> c, f3 |-> f, ui |-> ItrPlain, fi |-> "JSON"] :
        c \in AuditJsonDocs \cup AuditXmlDocs \cup {Garbage}, f \in Formats }
    \* every ITR document, under either format tag
    \cup { [u3 |-> AuditPlain, f3 |-> "JSON", ui |-> c, fi |-> f] :
        c \in ItrJsonDocs \cup ItrXmlDocs \cup {Garbage}, f \in Formats }
    \* both documents unreadable or foreign to their format tag
    \cup { [u3 |-> c3, f3 |-> f3, ui |-> ci, fi |-> fi] :
        c3 \in {Garbage, AuditPlain, AuditXml(<<>>)}, f3 \in Formats,
        ci \in {Garbage, ItrPlain, ItrXml(Absent, Absent, Absent, Absent, <<>>)},
        fi \in Formats }
    \* amounts around the tolerance in row 21(d)
    \cup { [u3 |-> AuditJson("3CA", RestJson(a)), f3 |-> "JSON",
            ui |-> ItrJson("ITR3", Absent, OiJson(Units(500), S36, r), <<>>, <<>>),
            fi |-> "JSON"] : a \in ReconAmounts, r \in ReconAmounts }
    \* both documents malformed below a resolved root
    \cup { [u3 |-> AuditHalf, f3 |-> "JSON", ui |-> ItrHalf, fi |-> "JSON"] }
    \* a file missing
    \cup { [u3 |-> NoFile, f3 |-> "JSON", ui |-> ItrPlain, fi |-> "JSON"],
           [u3 |-> AuditPlain, f3 |-> "JSON", ui |-> NoFile, fi |-> "JSON"] }

Init ==
    /\ \/ /\ val = None
          /\ \E i \in Inputs :
                u_3cd = i.u3 /\ fmt_3cd = i.f3 /\ u_itr = i.ui /\ fmt_itr = i.fi
       \/ /\ val \in CoerceInputs
          /\ u_3cd = AuditPlain /\ fmt_3cd = "JSON" /\ u_itr = ItrPlain /\ fmt_itr = "JSON"
    /\ coerced = [t |-> "none"]
    /\ pc = "start"
    /\ aud = <<>>
    /\ ret = <<>>
    /\ errors = <<>>
    /\ df = <<>>

Spec == Init /\ [][Next]_vars

(***************************************************************************)
(* Properties.                                                             *)
(***************************************************************************)
Parsed3cd == pc \in {"parse_itr", "recon", "done"}
ParsedItr == pc \in {"recon", "done"}

Error3cd == \E i \in 1..Len(errors) : errors[i] = "Error parsing 3CD"
ErrorItr == \E i \in 1..Len(errors) : errors[i] = "Error parsing ITR"

\* C1: whatever the bytes and the format tag, parse_3cd and parse_itr return
\* (no exception leaves them) and the record returned holds each of the
\* seven clause-keys with a number; parse_itr's record also holds name.
C1_ExtractorsTotal ==
    /\ pc # "crashed"
    /\ Parsed3cd => DOMAIN aud = ClauseKeys /\ \A k \in ClauseKeys : aud[k] \in Int
    /\ ParsedItr => /\ DOMAIN ret = ClauseKeys \cup {"name"}
                    /\ \A k \in ClauseKeys : ret[k] \in Int

\* C1 witness: a structured 3CD whose root resolved and whose PF/ESI loop
\* raised after adding an item, and an ITR that raised too, both returned.
C1_Witness ==
    /\ pc = "done"
    /\ Error3cd /\ ErrorItr
    /\ aud["c20b"] > 0
    /\ u_itr.kind = "json" /\ fmt_itr = "JSON"

ClaimLabels == <<"20(b)", "21(a)", "21(d)", "21(i)", "22", "43B(h)", "32">>
ClaimKeys == <<"c20b", "c21a", "c21d", "c21i", "c22", "c43bh", "c32">>

\* C8: the table has the seven rows 20(b), 21(a), 21(d), 21(i), 22, 43B(h), 32
\* in that order; each row holds the audit and return amounts of its own
\* clause-key, their difference audit - return, and Match exactly when the
\* difference is less than 5 in absolute value.
C8_ReconRows ==
    pc = "done" =>
        /\ Len(df) = Len(ClaimLabels)
        /\ \A i \in 1..Len(ClaimLabels) :
            /\ df[i].Clause = ClaimLabels[i]
            /\ df[i].Audit = aud[ClaimKeys[i]]
            /\ df[i].Return = ret[ClaimKeys[i]]
            /\ df[i].Diff = aud[ClaimKeys[i]] - ret[ClaimKeys[i]]
            /\ df[i].Status \in {"Match", "Mismatch"}
            /\ df[i].Status = "Match" <=> Abs(aud[ClaimKeys[i]] - ret[ClaimKeys[i]]) < 5000

\* C8 witness: a table with a difference of exactly 5 (Mismatch), and rows that
\* match and rows that do not.
C8_Witness ==
    /\ pc = "done"
    /\ \E i \in 1..Len(df) : df[i].Diff = 5000 /\ df[i].Status = "Mismatch"
    /\ \E i \in 1..Len(df) : df[i].Diff # 0 /\ df[i].Status = "Match"
    /\ \E i \in 1..Len(df) : df[i].Diff < -5000 /\ df[i].Status = "Mismatch"

\* The bytes are not a document of the declared format.
Unparseable(c, fmt) ==
    \/ fmt = "XML" /\ c.kind # "xml"
    \/ fmt = "JSON" /\ c.kind # "json"

\* C9: when neither document can be parsed in its declared format, each
\* extractor returns its all-zero record (name "Assessee") and shows one
\* message for its document, and the table has seven rows, every amount and
\* difference 0.0, every status Match.
C9_BothUnparseable ==
    /\ (Parsed3cd /\ Unparseable(u_3cd, fmt_3cd)) =>
            /\ aud = [k \in ClauseKeys |-> 0]
            /\ Len(SelectSeq(errors, LAMBDA e : e = "Error parsing 3CD")) = 1
    /\ (ParsedItr /\ Unparseable(u_itr, fmt_itr)) =>
            /\ ret = [k \in ClauseKeys \cup {"name"} |-> IF k = "name" THEN Assessee ELSE 0]
            /\ Len(SelectSeq(errors, LAMBDA e : e = "Error parsing ITR")) = 1
    /\ (pc = "done" /\ Unparseable(u_3cd, fmt_3cd) /\ Unparseable(u_itr, fmt_itr)) =>
            /\ Len(errors) = 2
            /\ Len(df) = 7
            /\ \A i \in 1..Len(df) :
                /\ df[i].Audit = 0 /\ df[i].Return = 0 /\ df[i].Diff = 0
                /\ df[i].Status = "Match"

\* C9 witness: corrupt bytes on one side, a document of the other format on
\* the other, reconciled.
C9_Witness ==
    /\ pc = "done"
    /\ u_3cd.kind = "garbage"
    /\ u_itr.kind = "json" /\ fmt_itr = "XML"
    /\ Len(df) = 7

RECURSIVE SumInts(_)
SumInts(ns) == IF ns = <<>> THEN 0 ELSE Head(ns) + SumInts(Tail(ns))

\* C6: to_f of a number (int or float, not a str) is that number rounded to 2
\* decimal places, which is what to_f returns for the number written as text.
C6_NumberRounded ==
    (coerced.t # "none" /\ val.t = "num") => coerced = Num(Round2(val.n, 3))

\* C6 failing run: to_f handed a number with a third decimal digit and
\* returning it with that digit.
C6_Witness ==
    coerced.t = "num" /\ val.t = "num" /\ coerced.n % 10 # 0

\* A decimal number: an optional sign, then digits with at most one point
\* among them and at least one digit.
IsDecimalBody(t) ==
    /\ \A i \in 1..Len(t) : IsDigit(t[i]) \/ t[i] = "."
    /\ \E i \in 1..Len(t) : IsDigit(t[i])
    /\ Cardinality({i \in 1..Len(t) : t[i] = "."}) <= 1

IsDecimalText(t) ==
    /\ t # <<>>
    /\ IF Head(t) \in {"-", "+"} THEN IsDecimalBody(Tail(t)) ELSE IsDecimalBody(t)

\* C7: to_f returns a number for every value and raises nothing; it returns
\* 0.0 for None and for every str that, commas removed and whitespace
\* stripped, is not a decimal number.
C7_CoerceTotal ==
    coerced.t # "none" =>
        /\ coerced.t = "num"
        /\ val.t = "null" => coerced = Num(0)
        /\ (val.t = "str" /\ ~IsDecimalText(Strip(RemoveCommas(val.s)))) => coerced = Num(0)

\* C7 failing run: to_f raising to its caller.
C7_Witness ==
    coerced.t = "raise"

(***************************************************************************)
(* Clause 20(b) as the specification reads it.                             *)
(***************************************************************************)
\* The text of the date k of a structured item, <<>> when the item has none.
DateOfJson(i, k) ==
    IF k \in DOMAIN i.m /\ i.m[k].t = "str" THEN i.m[k].s ELSE <<>>

\* What a structured item adds: its Amount when it has both dates and the
\* actual date is the greater string.
LateAmountJson(i) ==
    IF /\ DateOfJson(i, "DueDate") # <<>>
       /\ DateOfJson(i, "ActualDate") # <<>>
       /\ StrGreater(DateOfJson(i, "ActualDate"), DateOfJson(i, "DueDate"))
    THEN to_f(Get(i, "Amount", None)).n
    ELSE 0

\* The text of the child named k of a tagged item, <<>> when it has none.
OwnText(e, k) ==
    IF \E j \in 1..Len(e.kids) :
            LocalName(e.kids[j]) = k /\ e.kids[j].text.t = "str"
    THEN e.kids[CHOOSE j \in 1..Len(e.kids) :
                    /\ LocalName(e.kids[j]) = k /\ e.kids[j].text.t = "str"
                    /\ \A h \in 1..(j - 1) : LocalName(e.kids[h]) # k].text.s
    ELSE <<>>

\* What a tagged item adds, judged by its own children.
LateAmountXml(e) ==
    IF /\ OwnText(e, "DueDate") # <<>>
       /\ OwnText(e, "ActualDate") # <<>>
       /\ StrGreater(OwnText(e, "ActualDate"), OwnText(e, "DueDate"))
    THEN to_f(Str(OwnText(e, "Amount"))).n
    ELSE 0

\* The structured PF/ESI items are a list of dicts.
ItemsJsonOk(pf) ==
    /\ ~Raised(pf)
    /\ pf.t = "list"
    /\ \A j \in 1..Len(pf.l) : pf.l[j].t = "obj"

\* No PF/ESI element of the tree lies inside another.
NoNesting(root) ==
    \A j \in 1..Len(PfEntriesXml(root)) : PfEntriesXml(PfEntriesXml(root)[j]) = <<>>

C3_Json ==
    (/\ fmt_3cd = "JSON" /\ u_3cd.kind = "json"
     /\ ~Raised(Root3cdJson(u_3cd.doc))
     /\ Root3cdJson(u_3cd.doc).t = "obj"
     /\ ItemsJsonOk(PfEntriesJson(Root3cdJson(u_3cd.doc))))
    => aud["c20b"] =
         SumInts([j \in 1..Len(PfEntriesJson(Root3cdJson(u_3cd.doc)).l) |->
                    LateAmountJson(PfEntriesJson(Root3cdJson(u_3cd.doc)).l[j])])

C3_Xml ==
    (fmt_3cd = "XML" /\ u_3cd.kind = "xml" /\ NoNesting(u_3cd.root))
    => aud["c20b"] =
         SumInts([j \in 1..Len(PfEntriesXml(u_3cd.root)) |->
                    LateAmountXml(PfEntriesXml(u_3cd.root)[j])])

\* C3: in either format, when parse_3cd read the document without an error,
\* c20b is the sum over the PF/ESI items of the Amount of each item that has
\* both dates and whose actual date is the greater string; an item without a
\* due date or without an actual date adds nothing.
C3_LateItems == (Parsed3cd /\ ~Error3cd) => (C3_Json /\ C3_Xml)

\* C3 failing run: a structured document read without an error, whose only
\* PF/ESI item has no due date, and c20b not 0.
C3_Witness ==
    /\ Parsed3cd /\ ~Error3cd
    /\ fmt_3cd = "JSON" /\ u_3cd.kind = "json"
    /\ ~Raised(Root3cdJson(u_3cd.doc))
    /\ Root3cdJson(u_3cd.doc).t = "obj"
    /\ ItemsJsonOk(PfEntriesJson(Root3cdJson(u_3cd.doc)))
    /\ Len(PfEntriesJson(Root3cdJson(u_3cd.doc)).l) = 1
    /\ DateOfJson(PfEntriesJson(Root3cdJson(u_3cd.doc)).l[1], "DueDate") = <<>>
    /\ aud["c20b"] # 0

\* C10: on tagged input c20b is the sum, over every Form3cdEmpPfSuperann and
\* Form3cdSect20b element wherever it lies, of the Amount of that element when
\* its own dates make it late: each item once, judged by its own children.
C10_EachItemOnce ==
    (Parsed3cd /\ fmt_3cd = "XML" /\ u_3cd.kind = "xml")
    => aud["c20b"] =
         SumInts([j \in 1..Len(PfEntriesXml(u_3cd.root)) |->
                    LateAmountXml(PfEntriesXml(u_3cd.root)[j])])

\* C10 failing run: a PF/ESI element without dates of its own holding one
\* late item of 10.0, and c20b not 10.0.
C10_Witness ==
    /\ Parsed3cd /\ fmt_3cd = "XML" /\ u_3cd.kind = "xml"
    /\ Len(PfEntriesXml(u_3cd.root)) = 2
    /\ OwnText(PfEntriesXml(u_3cd.root)[1], "DueDate") = <<>>
    /\ LateAmountXml(PfEntriesXml(u_3cd.root)[2]) = 10000
    /\ aud["c20b"] # 10000

(***************************************************************************)
(* The return's clauses 32 and 21(a) as the specification reads them.      *)
(***************************************************************************)
\* d[path[1]][path[2]]..., None where a key is missing or the value is no dict.
RECURSIVE Field(_, _)
Field(d, path) ==
    IF path = <<>> THEN d
    ELSE IF d.t = "obj" /\ Head(path) \in DOMAIN d.m
         THEN Field(d.m[Head(path)], Tail(path))
         ELSE None

\* The structured return has a root that is a non-empty dict.
ItrRootResolved ==
    /\ fmt_itr = "JSON" /\ u_itr.kind = "json"
    /\ ~Raised(RootItrJson(u_itr.doc))
    /\ RootItrJson(u_itr.doc).t = "obj"
    /\ Truthy(RootItrJson(u_itr.doc))

\* The sum of the two asset-class schedule totals of a structured return.
FallbackC32Json(itr) ==
    to_f(Field(itr, <<"ScheduleDPM", "TotDepreciation">>)).n
    + to_f(Field(itr, <<"ScheduleDOA", "TotDepreciation">>)).n

\* The total of the first schedule named name of a tagged return.
SchedTotalXml(root, name) ==
    IF FindAll(root, name) = <<>> THEN 0
    ELSE to_f(get_xml_text(Head(FindAll(root, name)), "TotDepreciation")).n

FallbackC32Xml(root) ==
    SchedTotalXml(root, "ScheduleDPM") + SchedTotalXml(root, "ScheduleDOA")

C4_Json ==
    (/\ ItrRootResolved
     /\ C32Json(BpJson(RootItrJson(u_itr.doc))) = Num(0)
     /\ FallbackC32Json(RootItrJson(u_itr.doc)) # 0)
    => ret["c32"] = FallbackC32Json(RootItrJson(u_itr.doc))

C4_Xml ==
    (/\ fmt_itr = "XML" /\ u_itr.kind = "xml"
     /\ C32Xml(u_itr.root) = Num(0)
     /\ FallbackC32Xml(u_itr.root) # 0)
    => ret["c32"] = FallbackC32Xml(u_itr.root)

\* C4: when parse_itr read the return without an error, the summary
\* depreciation field is absent or zero and the two schedule totals sum to a
\* nonzero amount, c32 is that sum.
C4_C32Fallback == (ParsedItr /\ ~ErrorItr) => (C4_Json /\ C4_Xml)

\* C4 failing run: a return read without an error, no summary field,
\* schedule totals 3.0 and 4.0, and c32 at 0.0.
C4_Witness ==
    /\ ParsedItr /\ ~ErrorItr /\ ItrRootResolved
    /\ C32Json(BpJson(RootItrJson(u_itr.doc))) = Num(0)
    /\ FallbackC32Json(RootItrJson(u_itr.doc)) = 7000
    /\ ret["c32"] = 0

\* The key the business schedule is found under, "" when under none.
BusinessKey(itr) ==
    IF Truthy(Field(itr, <<"ITR3ScheduleBP">>)) THEN "ITR3ScheduleBP"
    ELSE IF Truthy(Field(itr, <<"CorpScheduleBP">>)) THEN "CorpScheduleBP"
    ELSE IF Truthy(Field(itr, <<"ScheduleBP">>)) THEN "ScheduleBP"
    ELSE ""

PrimaryC21a(itr) == to_f(Field(itr, <<"PARTA_OI", "AmtDisallUs37", "PersonalExpndtr">>))

FallbackC21a(itr) ==
    to_f(Field(itr, <<BusinessKey(itr), "BusinessIncOthThanSpec", "AmtDebPLDisallowUs37">>))

\* C5: on a structured return with a resolved root, c21a is the coerced
\* PARTA_OI.AmtDisallUs37.PersonalExpndtr when that is nonzero, and the
\* coerced AmtDebPLDisallowUs37 of the business schedule when it is zero or
\* absent (the whole PARTA_OI section may be missing).
C5_C21aChain ==
    (/\ ParsedItr /\ ItrRootResolved
     /\ ~Raised(PrimaryC21a(RootItrJson(u_itr.doc)))
     /\ ~Raised(FallbackC21a(RootItrJson(u_itr.doc))))
    => ret["c21a"] =
         IF PrimaryC21a(RootItrJson(u_itr.doc)).n # 0
         THEN PrimaryC21a(RootItrJson(u_itr.doc)).n
         ELSE FallbackC21a(RootItrJson(u_itr.doc)).n

\* C5 failing run: a resolved root with no dict under PARTA_OI,
\* AmtDebPLDisallowUs37 at 9.0, and c21a at 0.0.
C5_Witness ==
    /\ ParsedItr /\ ItrRootResolved
    /\ Field(RootItrJson(u_itr.doc), <<"PARTA_OI">>) = None
    /\ FallbackC21a(RootItrJson(u_itr.doc)) = Num(9000)
    /\ ret["c21a"] = 0

(***************************************************************************)
(* Containment of a failing clause in parse_3cd.                           *)
(***************************************************************************)
\* The clauses computed from a line-item collection of the structured 3CD:
\* the clause-key, the place of its statement in the try block, and the keys
\* its collection is read from.
ClauseColls ==
    { [key |-> "c20b", at |-> 1, colls |-> {"Form3cdEmpPfSuperannInfo", "Form3cdSect20b"}],
      [key |-> "c21a", at |-> 2, colls |-> {"Form3cdDebPLExpnditure"}],
      [key |-> "c43bh", at |-> 3, colls |-> {"Form3cdUnpaidStrySec43b"}],
      [key |-> "c22", at |-> 6, colls |-> {"Form3cdInadm"}],
      [key |-> "c32", at |-> 7, colls |-> {"Form3cdDeprAllw"}] }

\* The statement of the clause, run on its own, raises.
ClauseRaises(f, cl) == Exec(Start(Res3cd0), StmtsJson3cd(f)[cl.at]).exc # ""

\* The document without the collection of the clause.
WithoutColls(f, cl) == Obj([k \in DOMAIN f.m \ cl.colls |-> f.m[k]])

\* The record of the document without the collection of the clause.
ResWithout(f, cl) == Block(Start(Res3cd0), StmtsJson3cd(WithoutColls(f, cl)))

Root3cdResolved ==
    /\ fmt_3cd = "JSON" /\ u_3cd.kind = "json"
    /\ ~Raised(Root3cdJson(u_3cd.doc))
    /\ Root3cdJson(u_3cd.doc).t = "obj"
    /\ Truthy(Root3cdJson(u_3cd.doc))

\* C2: when the traversal of one clause's line items raises and nothing else
\* in the document does, that clause is 0.0 and every other clause-key has the
\* value it has for the document without that clause's collection.
C2_ClauseContained ==
    (Parsed3cd /\ Root3cdResolved) =>
        \A cl \in ClauseColls :
            (/\ ClauseRaises(Root3cdJson(u_3cd.doc), cl)
             /\ ResWithout(Root3cdJson(u_3cd.doc), cl).exc = "")
            => /\ aud[cl.key] = 0
               /\ \A k \in ClauseKeys \ {cl.key} :
                    aud[k] = ResWithout(Root3cdJson(u_3cd.doc), cl).res[k]

\* C2 failing run: the PF/ESI loop raises, the document without the PF/ESI
\* collection gives c21d 100.0, and c21d is 0.0.
C2_Witness ==
    /\ Parsed3cd /\ Root3cdResolved
    /\ \E cl \in ClauseColls :
          /\ cl.key = "c20b"
          /\ ClauseRaises(Root3cdJson(u_3cd.doc), cl)
          /\ ResWithout(Root3cdJson(u_3cd.doc), cl).exc = ""
          /\ ResWithout(Root3cdJson(u_3cd.doc), cl).res["c21d"] = 100000
    /\ aud["c21d"] = 0

====
